---- MODULE Spec2Model ----
(***************************************************************************)
(* Model of rs-zip (src/src/lib.rs): the `zip` entry point with its level  *)
(* validation, CompressTask::compute (directory walk, glob exclusion,      *)
(* file records and directory markers) and UncompressTask::compute         *)
(* (enclosed-name check, directory / file materialisation, permission      *)
(* restoration).                                                           *)
(*                                                                         *)
(* Strings are sequences of one-character strings.  The filesystem is a    *)
(* function from canonical absolute paths (sequences of name segments) to  *)
(* nodes; the process is an unprivileged user "me".                        *)
(***************************************************************************)
EXTENDS Integers, Sequences, FiniteSets, TLC

VARIABLES
  fs,          \* the filesystem: canonical path -> node
  touched,     \* history: canonical paths created / truncated / written / chmod-ed by the extractor
  pc,          \* position of the running operation
  call,        \* arguments of the pending `zip` call: [source_dir, options]
  task,        \* the CompressTask built by `zip` (or NoTask)
  zipFile,     \* the file at output_path / source_path: [exists, entries, finished]
  walk,        \* CompressTask: the WalkDir iterator (stack of pending paths)
  walked,      \* history: the entries the walk yielded, in order
  file_count,  \* CompressTask: file_count
  zresult,     \* result of zip / CompressTask::compute
  output_dir,  \* UncompressTask.output_dir
  idx,         \* UncompressTask: loop index i (0-based)
  handled,     \* history: for each processed entry index, how it ended
  fsAtEntry,   \* history: the filesystem when the current / failing entry began
  uresult      \* result of UncompressTask::compute

vars == <<fs, touched, pc, call, task, zipFile, walk, walked, file_count,
          zresult, output_dir, idx, handled, fsAtEntry, uresult>>

-----------------------------------------------------------------------------
(* Bounds *)

MaxNodes == 3      \* entries below source_dir in the source tree
MaxPatterns == 1   \* exclusion strings per call
MaxEntries == 2    \* entries of a hand-made archive

-----------------------------------------------------------------------------
(* Strings and paths *)

Sep == "/"
Dot == "."
Nul == "NUL"

None == [some |-> FALSE, v |-> <<>>]
Some(x) == [some |-> TRUE, v |-> x]
NoMode == [some |-> FALSE, v |-> 0]
SomeMode(m) == [some |-> TRUE, v |-> m]
NoLevel == [some |-> FALSE, v |-> 0]
SomeLevel(l) == [some |-> TRUE, v |-> l]

RECURSIVE SplitAcc(_, _, _)
SplitAcc(s, cur, acc) ==
  IF s = <<>>
  THEN IF cur = <<>> THEN acc ELSE Append(acc, cur)
  ELSE IF Head(s) = Sep
       THEN SplitAcc(Tail(s), <<>>, IF cur = <<>> THEN acc ELSE Append(acc, cur))
       ELSE SplitAcc(Tail(s), Append(cur, Head(s)), acc)

\* the non-empty segments of a path string
Segs(s) == SplitAcc(s, <<>>, <<>>)

IsAbsolute(s) == s /= <<>> /\ s[1] = Sep
EndsWithSlash(s) == s /= <<>> /\ s[Len(s)] = Sep

RECURSIVE JoinSegs(_)
JoinSegs(segs) ==
  IF segs = <<>> THEN <<>>
  ELSE IF Len(segs) = 1 THEN segs[1]
  ELSE segs[1] \o <<Sep>> \o JoinSegs(Tail(segs))

\* std::path::Components on Unix: RootDir, a leading CurDir, ParentDir, Normal;
\* empty segments and non-leading "." are dropped
RootDir == [t |-> "RootDir", n |-> <<>>]
CurDir == [t |-> "CurDir", n |-> <<>>]
ParentDir == [t |-> "ParentDir", n |-> <<>>]
Normal(n) == [t |-> "Normal", n |-> n]

RECURSIVE BodyComponents(_, _)
BodyComponents(segs, leadingRel) ==
  IF segs = <<>> THEN <<>>
  ELSE LET h == Head(segs)
           rest == BodyComponents(Tail(segs), FALSE)
       IN IF h = <<Dot>> THEN (IF leadingRel THEN <<CurDir>> \o rest ELSE rest)
          ELSE IF h = <<Dot, Dot>> THEN <<ParentDir>> \o rest
          ELSE <<Normal(h)>> \o rest

Components(s) ==
  IF IsAbsolute(s) THEN <<RootDir>> \o BodyComponents(Segs(s), FALSE)
  ELSE BodyComponents(Segs(s), TRUE)

CompText(c) ==
  IF c.t = "Normal" THEN c.n ELSE IF c.t = "ParentDir" THEN <<Dot, Dot>> ELSE <<Dot>>

\* the path string of a component sequence
Render(comps) ==
  IF comps /= <<>> /\ comps[1].t = "RootDir"
  THEN <<Sep>> \o JoinSegs([i \in 1..(Len(comps) - 1) |-> CompText(comps[i + 1])])
  ELSE JoinSegs([i \in 1..Len(comps) |-> CompText(comps[i])])

\* Path::parent: the path without its last component; None at a root or ""
PathParent(s) ==
  LET c == Components(s)
  IN IF c = <<>> \/ c[Len(c)].t = "RootDir" THEN None
     ELSE Some(Render(SubSeq(c, 1, Len(c) - 1)))

\* PathBuf::join: an absolute argument replaces the base
PathJoin(base, p) ==
  IF IsAbsolute(p) THEN p
  ELSE IF EndsWithSlash(base) \/ base = <<>> THEN base \o p
  ELSE base \o <<Sep>> \o p

-----------------------------------------------------------------------------
(* glob::Pattern, as used at lib.rs:48 and lib.rs:79 (default MatchOptions) *)

AnyChar == [t |-> "AnyChar", c |-> <<>>]
AnySequence == [t |-> "AnySequence", c |-> <<>>]
AnyRecursiveSequence == [t |-> "AnyRecursiveSequence", c |-> <<>>]
AnyWithin(cs) == [t |-> "AnyWithin", c |-> cs]
CharTok(c) == [t |-> "Char", c |-> <<c>>]

PatternErr == [ok |-> FALSE, tokens |-> <<>>]

\* first index >= i whose character is not c (Len + 1 when there is none)
RECURSIVE SkipRun(_, _, _)
SkipRun(chars, i, c) ==
  IF i <= Len(chars) /\ chars[i] = c THEN SkipRun(chars, i + 1, c) ELSE i

\* first index >= i whose character is c (0 when there is none)
RECURSIVE FindChar(_, _, _)
FindChar(chars, i, c) ==
  IF i > Len(chars) THEN 0
  ELSE IF chars[i] = c THEN i ELSE FindChar(chars, i + 1, c)

RECURSIVE ParseTokens(_, _, _)
ParseTokens(chars, i, tokens) ==
  IF i > Len(chars) THEN [ok |-> TRUE, tokens |-> tokens]
  ELSE
    LET c == chars[i] IN
    IF c = "?" THEN ParseTokens(chars, i + 1, Append(tokens, AnyChar))
    ELSE IF c = "*" THEN
      LET j == SkipRun(chars, i, "*")
          count == j - i
      IN IF count > 2 THEN PatternErr
         ELSE IF count = 2 THEN
           \* `**` must be a whole path component
           IF i = 1 \/ chars[i - 1] = Sep
           THEN IF j <= Len(chars) /\ chars[j] = Sep
                THEN ParseTokens(chars, j + 1,
                       IF Len(tokens) > 1 /\ tokens[Len(tokens)] = AnyRecursiveSequence
                       THEN tokens ELSE Append(tokens, AnyRecursiveSequence))
                ELSE IF j = Len(chars) + 1
                THEN ParseTokens(chars, j,
                       IF Len(tokens) > 1 /\ tokens[Len(tokens)] = AnyRecursiveSequence
                       THEN tokens ELSE Append(tokens, AnyRecursiveSequence))
                ELSE PatternErr
           ELSE PatternErr
         ELSE ParseTokens(chars, j, Append(tokens, AnySequence))
    ELSE IF c = "[" THEN
      \* a character class needs a closing bracket after at least one character
      LET k == IF i + 2 <= Len(chars) THEN FindChar(chars, i + 2, "]") ELSE 0
      IN IF k = 0 THEN PatternErr
         ELSE ParseTokens(chars, k + 1, Append(tokens, AnyWithin(SubSeq(chars, i + 1, k - 1))))
    ELSE ParseTokens(chars, i + 1, Append(tokens, CharTok(c)))

\* Pattern::new
PatternNew(p) == ParseTokens(p, 1, <<>>)

TokenMatchesChar(tok, c) ==
  IF tok.t = "AnyChar" THEN TRUE
  ELSE IF tok.t = "AnyWithin" THEN \E k \in 1..Len(tok.c) : tok.c[k] = c
  ELSE tok.c = <<c>>

RECURSIVE MatchesFrom(_, _, _)
MatchesFrom(tokens, ti, file) ==
  IF ti > Len(tokens) THEN file = <<>>
  ELSE
    LET tok == tokens[ti] IN
    IF tok.t \in {"AnySequence", "AnyRecursiveSequence"}
    THEN \/ MatchesFrom(tokens, ti + 1, file)
         \/ \E k \in 1..Len(file) :
              /\ tok.t = "AnyRecursiveSequence" => file[k] = Sep
              /\ MatchesFrom(tokens, ti + 1, SubSeq(file, k + 1, Len(file)))
    ELSE /\ file /= <<>>
         /\ TokenMatchesChar(tok, Head(file))
         /\ MatchesFrom(tokens, ti + 1, Tail(file))

\* Pattern::matches
PatternMatches(tokens, str) == MatchesFrom(tokens, 1, str)

-----------------------------------------------------------------------------
(* The filesystem as the std::fs calls of lib.rs see it *)

S_IFREG == 8 * 4096          \* 0o100000
S_IFDIR == 4 * 4096          \* 0o040000
ModeRWX == 7 * 64 + 5 * 8 + 5    \* 0o755
ModeRX == 5 * 64 + 5 * 8 + 5     \* 0o555
ModeRW == 6 * 64 + 4 * 8 + 4     \* 0o644
ModeNone == 0 * 64               \* 0o000

DirNode(m, o) == [kind |-> "dir", mode |-> m, owner |-> o, data |-> <<>>]
FileNode(m, o, d) == [kind |-> "file", mode |-> m, owner |-> o, data |-> d]
\* a dangling symbolic link: listed by its directory, but stat fails on it
LinkNode == [kind |-> "symlink", mode |-> ModeRWX, owner |-> "me", data |-> <<>>]

\* the permission triple that applies to the process
Perm(node) == IF node.owner = "me" THEN (node.mode \div 64) % 8 ELSE node.mode % 8
CanR(node) == (Perm(node) \div 4) % 2 = 1
CanW(node) == (Perm(node) \div 2) % 2 = 1
CanX(node) == Perm(node) % 2 = 1

Front(q) == SubSeq(q, 1, Len(q) - 1)
Last(q) == q[Len(q)]
DirOf(p) == IF p = <<>> THEN <<>> ELSE Front(p)
IsPrefix(a, b) == Len(a) <= Len(b) /\ SubSeq(b, 1, Len(a)) = a

Ok(p) == [err |-> "OK", path |-> p]
Errno(e) == [err |-> e, path |-> <<>>]

\* path resolution from canonical directory cur along the raw segments
RECURSIVE ResolveFrom(_, _, _)
ResolveFrom(f, cur, segs) ==
  IF segs = <<>> THEN Ok(cur)
  ELSE IF f[cur].kind = "symlink" THEN Errno("ENOENT")
  ELSE IF f[cur].kind /= "dir" THEN Errno("ENOTDIR")
  ELSE IF ~CanX(f[cur]) THEN Errno("EACCES")
  ELSE LET h == Head(segs)
           next == IF h = <<Dot>> THEN cur
                   ELSE IF h = <<Dot, Dot>> THEN DirOf(cur)
                   ELSE Append(cur, h)
       IN IF next \notin DOMAIN f THEN Errno("ENOENT")
          ELSE ResolveFrom(f, next, Tail(segs))

\* stat(2): follows the path, a trailing slash asks for a directory
StatResolved(f, s, r) ==
  IF r.err /= "OK" THEN r
  ELSE IF f[r.path].kind = "symlink" THEN Errno("ENOENT")
  ELSE IF EndsWithSlash(s) /\ f[r.path].kind /= "dir" THEN Errno("ENOTDIR")
  ELSE r

Stat(f, s) ==
  IF s = <<>> THEN Errno("ENOENT") ELSE StatResolved(f, s, ResolveFrom(f, <<>>, Segs(s)))

KindIs(f, r, k) == r.err = "OK" /\ f[r.path].kind = k

PathExists(f, s) == Stat(f, s).err = "OK"
PathIsDir(f, s) == KindIs(f, Stat(f, s), "dir")
PathIsFile(f, s) == KindIs(f, Stat(f, s), "file")

\* results of the mutating calls: the error, the new filesystem, the effects made
Effect(p, op) == [p |-> p, op |-> op]
Done(f, ch) == [err |-> "OK", fs |-> f, changed |-> ch]
Fail(e, f, ch) == [err |-> e, fs |-> f, changed |-> ch]

Put(f, p, node) == [q \in DOMAIN f \cup {p} |-> IF q = p THEN node ELSE f[q]]

\* mkdir(2) of name in the resolved directory d; new directories get 0o777 & ~umask
MkdirIn(f, d, name) ==
  IF d.err /= "OK" THEN Fail(d.err, f, {})
  ELSE IF f[d.path].kind = "symlink" THEN Fail("ENOENT", f, {})
  ELSE IF f[d.path].kind /= "dir" THEN Fail("ENOTDIR", f, {})
  ELSE IF ~CanX(f[d.path]) THEN Fail("EACCES", f, {})
  ELSE IF name \in {<<Dot>>, <<Dot, Dot>>} THEN Fail("EEXIST", f, {})
  ELSE IF Append(d.path, name) \in DOMAIN f THEN Fail("EEXIST", f, {})
  ELSE IF ~CanW(f[d.path]) THEN Fail("EACCES", f, {})
  ELSE Done(Put(f, Append(d.path, name), DirNode(ModeRWX, "me")),
            {Effect(Append(d.path, name), "mkdir")})

MkdirSegs(f, segs) ==
  IF segs = <<>> THEN Fail("EEXIST", f, {})
  ELSE MkdirIn(f, ResolveFrom(f, <<>>, Front(segs)), Last(segs))

Mkdir(f, s) == IF s = <<>> THEN Fail("ENOENT", f, {}) ELSE MkdirSegs(f, Segs(s))

\* std::fs::create_dir_all (DirBuilder::create_dir_all)
RECURSIVE create_dir_all(_, _)
\* the second mkdir, after the parent was made
CreateDirRetry(up, again, s) ==
  IF again.err = "OK" THEN Done(again.fs, up.changed \cup again.changed)
  ELSE IF PathIsDir(up.fs, s) THEN Done(up.fs, up.changed)
  ELSE Fail(again.err, up.fs, up.changed)

CreateDirAfterParent(up, s) ==
  IF up.err /= "OK" THEN up ELSE CreateDirRetry(up, Mkdir(up.fs, s), s)

CreateDirParent(f, par) ==
  IF ~par.some THEN Fail("failed to create whole tree", f, {})
  ELSE create_dir_all(f, par.v)

CreateDirFirst(f, s, first) ==
  IF first.err = "OK" THEN first
  ELSE IF first.err /= "ENOENT" /\ PathIsDir(f, s) THEN Done(f, {})
  ELSE IF first.err /= "ENOENT" THEN first
  ELSE CreateDirAfterParent(CreateDirParent(f, PathParent(s)), s)

create_dir_all(f, s) ==
  IF s = <<>> THEN Done(f, {}) ELSE CreateDirFirst(f, s, Mkdir(f, s))

\* open(O_WRONLY | O_CREAT | O_TRUNC) of name in the resolved directory d;
\* new files get 0o666 & ~umask
FileCreateIn(f, d, name, slash) ==
  IF d.err /= "OK" THEN Fail(d.err, f, {})
  ELSE IF f[d.path].kind = "symlink" THEN Fail("ENOENT", f, {})
  ELSE IF f[d.path].kind /= "dir" THEN Fail("ENOTDIR", f, {})
  ELSE IF ~CanX(f[d.path]) THEN Fail("EACCES", f, {})
  ELSE IF name \in {<<Dot>>, <<Dot, Dot>>} THEN Fail("EISDIR", f, {})
  ELSE IF Append(d.path, name) \in DOMAIN f
  THEN IF f[Append(d.path, name)].kind = "dir" THEN Fail("EISDIR", f, {})
       ELSE IF f[Append(d.path, name)].kind = "symlink" THEN Fail("ELOOP", f, {})
       ELSE IF slash THEN Fail("ENOTDIR", f, {})
       ELSE IF ~CanW(f[Append(d.path, name)]) THEN Fail("EACCES", f, {})
       ELSE Done(Put(f, Append(d.path, name), [f[Append(d.path, name)] EXCEPT !.data = <<>>]),
                 {Effect(Append(d.path, name), "truncate")})
  ELSE IF slash THEN Fail("EISDIR", f, {})
  ELSE IF ~CanW(f[d.path]) THEN Fail("EACCES", f, {})
  ELSE Done(Put(f, Append(d.path, name), FileNode(ModeRW, "me", <<>>)),
            {Effect(Append(d.path, name), "create")})

FileCreateSegs(f, segs, slash) ==
  IF segs = <<>> THEN Fail("EISDIR", f, {})
  ELSE FileCreateIn(f, ResolveFrom(f, <<>>, Front(segs)), Last(segs), slash)

\* File::create
FileCreate(f, s) ==
  IF s = <<>> THEN Fail("ENOENT", f, {}) ELSE FileCreateSegs(f, Segs(s), EndsWithSlash(s))

\* write through the open descriptor of canonical path p
WriteData(f, p, d) == Done(Put(f, p, [f[p] EXCEPT !.data = d]), {Effect(p, "write")})

\* chmod(2) on the resolved path
Chmod(f, r, mode) ==
  IF r.err /= "OK" THEN Fail(r.err, f, {})
  ELSE IF f[r.path].owner /= "me" THEN Fail("EPERM", f, {})
  ELSE Done(Put(f, r.path, [f[r.path] EXCEPT !.mode = mode % 4096]),
            {Effect(r.path, "chmod")})

\* std::fs::set_permissions with Permissions::from_mode(mode)
set_permissions(f, s, mode) == Chmod(f, Stat(f, s), mode)

-----------------------------------------------------------------------------
(* The archive container: a sequence of entries.  An entry is                *)
(* [name, mode, data, level, bad]; bad = "index" is an entry the reader      *)
(* cannot open (by_index fails), bad = "data" one whose content does not     *)
(* decompress (io::copy fails part-way).                                     *)

Entry(n, m, d, l, b) == [name |-> n, mode |-> m, data |-> d, level |-> l, bad |-> b]
NoZip == [exists |-> FALSE, entries |-> <<>>, finished |-> FALSE]
IsDirEntry(e) == EndsWithSlash(e.name)

-----------------------------------------------------------------------------
(* UncompressTask::compute *)

RECURSIVE DepthOk(_, _)
DepthOk(comps, depth) ==
  IF comps = <<>> THEN TRUE
  ELSE LET c == Head(comps) IN
       IF c.t = "RootDir" THEN FALSE
       ELSE IF c.t = "ParentDir" THEN depth > 0 /\ DepthOk(Tail(comps), depth - 1)
       ELSE IF c.t = "Normal" THEN DepthOk(Tail(comps), depth + 1)
       ELSE DepthOk(Tail(comps), depth)

\* mutant: the name is accepted whatever its parent-directory segments
enclosed_name_unchecked(name) ==
  IF \E k \in 1..Len(name) : name[k] = Nul THEN None ELSE Some(name)

\* ZipFile::enclosed_name
enclosed_name(name) ==
  IF \E k \in 1..Len(name) : name[k] = Nul THEN None
  ELSE IF DepthOk(Components(name), 0) THEN Some(name)
  ELSE None

Outcome(how, err, f, ch) == [how |-> how, err |-> err, fs |-> f, changed |-> ch]

\* lib.rs:241-249, after the entry was materialised at outpath
PermissionsSet(how, r, ch) ==
  IF r.err /= "OK" THEN Outcome(how, "Failed to set file permissions", r.fs, ch)
  ELSE Outcome(how, "OK", r.fs, ch \cup r.changed)

RestorePermissions(how, f, ch, outpath, e) ==
  IF ~e.mode.some THEN Outcome(how, "OK", f, ch)
  ELSE PermissionsSet(how, set_permissions(f, outpath, e.mode.v), ch)

\* lib.rs:224-226
DirCreated(r, outpath, e) ==
  IF r.err /= "OK" THEN Outcome("dir", "Failed to create directory", r.fs, r.changed)
  ELSE RestorePermissions("dir", r.fs, r.changed, outpath, e)

ExtractDir(f, outpath, e) == DirCreated(create_dir_all(f, outpath), outpath, e)

\* lib.rs:237-238: io::copy into the created file, then the permissions
ContentCopied(r3, ch, outpath, e) ==
  IF e.bad = "data"
  THEN Outcome("file", "Failed to decompress file content", r3.fs, ch \cup r3.changed)
  ELSE RestorePermissions("file", r3.fs, ch \cup r3.changed, outpath, e)

\* lib.rs:235-236
OutfileCreated(r2, ch, outpath, e) ==
  IF r2.err /= "OK" THEN Outcome("file", "Failed to create output file", r2.fs, ch)
  ELSE ContentCopied(
         WriteData(r2.fs, (CHOOSE c \in r2.changed : TRUE).p,
                   IF e.bad = "data" THEN SubSeq(e.data, 1, Len(e.data) - 1) ELSE e.data),
         ch \cup r2.changed, outpath, e)

\* lib.rs:229-234
ParentEnsured(r1, outpath, e) ==
  IF r1.err /= "OK"
  THEN Outcome("file", "Failed to create parent directory", r1.fs, r1.changed)
  ELSE OutfileCreated(FileCreate(r1.fs, outpath), r1.changed, outpath, e)

EnsureParent(f, p) ==
  IF p.some /\ ~PathExists(f, p.v) THEN create_dir_all(f, p.v) ELSE Done(f, {})

\* lib.rs:227-239
ExtractFile(f, outpath, e) == ParentEnsured(EnsureParent(f, PathParent(outpath)), outpath, e)

\* mutant: an unsafe name is a hard failure
Enclosed_failing(f, out, e, en) ==
  IF ~en.some THEN Outcome("skipped", "Unsafe entry name", f, {})
  ELSE IF EndsWithSlash(e.name) THEN ExtractDir(f, PathJoin(out, en.v), e)
  ELSE ExtractFile(f, PathJoin(out, en.v), e)

\* lib.rs:219-222
Enclosed(f, out, e, en) ==
  IF ~en.some THEN Outcome("skipped", "OK", f, {})
  ELSE IF EndsWithSlash(e.name) THEN ExtractDir(f, PathJoin(out, en.v), e)
  ELSE ExtractFile(f, PathJoin(out, en.v), e)

\* one iteration of the loop at lib.rs:213-250
ExtractOne(f, out, e) ==
  IF e.bad = "index" THEN Outcome("unread", "Failed to read zip entry", f, {})
  ELSE Enclosed(f, out, e, enclosed_name(e.name))

\* lib.rs:208-211: File::open and ZipArchive::new
UnzipOpen ==
  /\ pc = "unzip"
  /\ IF ~zipFile.exists
     THEN /\ uresult' = "Failed to open zip file"
          /\ pc' = "done"
     ELSE IF ~zipFile.finished
     THEN /\ uresult' = "Failed to read zip archive"
          /\ pc' = "done"
     ELSE /\ pc' = "extracting"
          /\ UNCHANGED uresult
  /\ idx' = 0
  /\ UNCHANGED <<fs, touched, call, task, zipFile, walk, walked, file_count,
                 zresult, output_dir, handled, fsAtEntry>>

\* mutant: a failing entry is passed over and the loop goes on
EntryOutcome_continue(r) ==
  /\ fs' = r.fs
  /\ touched' = touched \cup r.changed
  /\ handled' = Append(handled, [i |-> idx, how |-> r.how, err |-> r.err, changed |-> r.changed])
  /\ fsAtEntry' = fs
  /\ idx' = idx + 1
  /\ UNCHANGED <<pc, uresult>>

\* the loop continues after a success and returns the error otherwise (`?`)
EntryOutcome(r) ==
  /\ fs' = r.fs
  /\ touched' = touched \cup r.changed
  /\ handled' = Append(handled, [i |-> idx, how |-> r.how, err |-> r.err, changed |-> r.changed])
  /\ fsAtEntry' = fs
  /\ IF r.err = "OK"
     THEN /\ idx' = idx + 1
          /\ UNCHANGED <<pc, uresult>>
     ELSE /\ uresult' = r.err
          /\ pc' = "done"
          /\ UNCHANGED idx

\* lib.rs:213-250: the body of the loop for entry idx
ExtractEntry ==
  /\ pc = "extracting"
  /\ idx < Len(zipFile.entries)
  /\ EntryOutcome(ExtractOne(fs, output_dir, zipFile.entries[idx + 1]))
  /\ UNCHANGED <<call, task, zipFile, walk, walked, file_count, zresult, output_dir>>

\* lib.rs:252
ExtractReturn ==
  /\ pc = "extracting"
  /\ idx = Len(zipFile.entries)
  /\ uresult' = "OK"
  /\ pc' = "done"
  /\ UNCHANGED <<fs, touched, call, task, zipFile, walk, walked, file_count,
                 zresult, output_dir, idx, handled, fsAtEntry>>

-----------------------------------------------------------------------------
(* zip and CompressTask::compute *)

DefaultLevel == 1
LevelMin == 0
LevelMax == 9

NoResult == [state |-> "none", count |-> 0, err |-> ""]
OkCount(n) == [state |-> "ok", count |-> n, err |-> ""]
Err(msg) == [state |-> "err", count |-> 0, err |-> msg]

ZipOptions(level, exclude) == [level |-> level, exclude |-> exclude]

\* lib.rs:178-181
ResolveOptions(options) ==
  IF options.some THEN options.v ELSE ZipOptions(SomeLevel(DefaultLevel), None)

\* Option<i32>::unwrap_or(1)
LevelOr(level) == IF level.some THEN level.v ELSE DefaultLevel

\* mutant: only the upper end is checked
LevelInRange_upper(level) == level <= LevelMax

\* lib.rs:184
LevelInRange(level) == level >= LevelMin /\ level <= LevelMax

\* lib.rs:173-196
Zip ==
  /\ pc = "zip"
  /\ IF ~LevelInRange(LevelOr(ResolveOptions(call.options).level))
     THEN /\ zresult' = Err("Compression level must be between 0 and 9")
          /\ pc' = "done"
          /\ UNCHANGED task
     ELSE /\ task' = [built |-> TRUE, source_dir |-> call.source_dir,
                      options |-> ResolveOptions(call.options)]
          /\ pc' = "task"
          /\ UNCHANGED zresult
  /\ UNCHANGED <<fs, touched, call, zipFile, walk, walked, file_count,
                 output_dir, idx, handled, fsAtEntry, uresult>>

\* lib.rs:41-51: the exclusion strings that compile, as token sequences
RECURSIVE CompilePatterns(_)
CompilePatterns(strs) ==
  IF strs = <<>> THEN <<>>
  ELSE IF PatternNew(Head(strs)).ok
       THEN <<PatternNew(Head(strs)).tokens>> \o CompilePatterns(Tail(strs))
       ELSE CompilePatterns(Tail(strs))

exclude_patterns(options) ==
  IF options.exclude.some THEN CompilePatterns(options.exclude.v) ELSE <<>>

\* mutant: the patterns are tested against the file name, not the relative path
IsExcluded_basename(patterns, name_str) ==
  \E k \in 1..Len(patterns) :
    PatternMatches(patterns[k],
                   IF Segs(name_str) = <<>> THEN <<>> ELSE Last(Segs(name_str)))

\* lib.rs:77-86
IsExcluded(patterns, name_str) ==
  \E k \in 1..Len(patterns) : PatternMatches(patterns[k], name_str)

\* the path string of a canonical path
PathStr(p) == <<Sep>> \o JoinSegs(p)

\* WalkDir::new(root).into_iter().filter_map(|e| e.ok()): the root is yielded
\* when it can be stat-ed, a walk error yields nothing
WalkRoot(f, source_dir) ==
  IF PathExists(f, source_dir) THEN <<Stat(f, source_dir).path>> ELSE <<>>

\* the entries WalkDir lists below p: none unless p is a directory that can be
\* opened and read (the read error is dropped by the filter_map)
Children(f, p) ==
  IF f[p].kind = "dir" /\ CanR(f[p]) /\ PathIsDir(f, PathStr(p))
  THEN {q \in DOMAIN f : Len(q) = Len(p) + 1 /\ Front(q) = p}
  ELSE {}

\* every order in which read_dir may list the set
Orders(S) == {o \in [1..Cardinality(S) -> S] : \A x \in S : \E k \in DOMAIN o : o[k] = x}

\* lib.rs:68-74: strip_prefix and to_str
NameStr(root, p) == JoinSegs(SubSeq(p, Len(root) + 1, Len(p)))

\* lib.rs:98-104 and 131-135: the mode taken from std::fs::metadata, when it succeeds
\* (SimpleFileOptions::unix_permissions keeps mode & 0o777)
TypeBits(node) == IF node.kind = "dir" THEN S_IFDIR ELSE S_IFREG
StMode(node) == TypeBits(node) + node.mode
UnixPermissions(f, r) ==
  IF r.err = "OK" THEN SomeMode(StMode(f[r.path]) % 512) ELSE NoMode

\* ZipWriter::start_file: the stored mode is the permissions (default 0o644) | S_IFREG
FileRecord(name, perms, level, data) ==
  Entry(name, SomeMode(S_IFREG + (IF perms.some THEN perms.v ELSE ModeRW)), data, level, "ok")

\* ZipWriter::add_directory: the name gets its trailing slash, the stored mode
\* is the permissions (default 0o755) | S_IFDIR
DirectoryMarker(name, perms, level) ==
  Entry(IF EndsWithSlash(name) THEN name ELSE name \o <<Sep>>,
        SomeMode(S_IFDIR + (IF perms.some THEN perms.v ELSE ModeRWX)), <<>>, level, "ok")

\* File::open for reading
CanOpen(f, r) == r.err = "OK" /\ f[r.path].kind = "file" /\ CanR(f[r.path])

Visited(err, entries, counted) == [err |-> err, entries |-> entries, counted |-> counted]

\* lib.rs:94-125: the file branch; start_file comes before File::open
VisitFile(f, r, name, level) ==
  IF ~CanOpen(f, r)
  THEN Visited("Failed to read source file",
               <<FileRecord(name, UnixPermissions(f, r), level, <<>>)>>, 0)
  ELSE Visited("OK", <<FileRecord(name, UnixPermissions(f, r), level, f[r.path].data)>>, 1)

\* mutant: directory markers are counted too
VisitOther_counted(f, r, name, level) ==
  IF name /= <<>>
  THEN Visited("OK", <<DirectoryMarker(name, UnixPermissions(f, r), level)>>, 1)
  ELSE Visited("OK", <<>>, 0)

\* lib.rs:126-146: the branch taken by everything that is not a regular file
VisitOther(f, r, name, level) ==
  IF name /= <<>>
  THEN Visited("OK", <<DirectoryMarker(name, UnixPermissions(f, r), level)>>, 0)
  ELSE Visited("OK", <<>>, 0)

\* lib.rs:64-147: one iteration of the loop, for the walked entry p
Visit(f, options, root, p) ==
  IF IsExcluded(exclude_patterns(options), NameStr(root, p)) THEN Visited("OK", <<>>, 0)
  ELSE IF PathIsFile(f, PathStr(p))
  THEN VisitFile(f, Stat(f, PathStr(p)), NameStr(root, p), LevelOr(options.level))
  ELSE VisitOther(f, Stat(f, PathStr(p)), NameStr(root, p), LevelOr(options.level))

\* lib.rs:31-62: File::create(output_path), the writer, the walk
ComputeBegin ==
  /\ pc = "task"
  /\ zipFile' = [exists |-> TRUE, entries |-> <<>>, finished |-> FALSE]
  /\ walk' = WalkRoot(fs, task.source_dir)
  /\ file_count' = 0
  /\ pc' = "walking"
  /\ UNCHANGED <<fs, touched, call, task, walked, zresult,
                 output_dir, idx, handled, fsAtEntry, uresult>>

VisitOutcome(v) ==
  /\ zipFile' = [zipFile EXCEPT !.entries = zipFile.entries \o v.entries]
  /\ file_count' = file_count + v.counted
  /\ IF v.err = "OK"
     THEN UNCHANGED <<pc, zresult>>
     ELSE /\ zresult' = Err(v.err)
          /\ pc' = "done"

\* lib.rs:64-147: the next entry of the walk
WalkStep ==
  /\ pc = "walking"
  /\ walk /= <<>>
  /\ \E kids \in Orders(Children(fs, Head(walk))) :
       walk' = kids \o Tail(walk)
  /\ walked' = Append(walked, Head(walk))
  /\ VisitOutcome(Visit(fs, task.options, Stat(fs, task.source_dir).path, Head(walk)))
  /\ UNCHANGED <<fs, touched, call, task, output_dir, idx, handled, fsAtEntry, uresult>>

\* lib.rs:149-154: finish and return the count
ComputeFinish ==
  /\ pc = "walking"
  /\ walk = <<>>
  /\ zipFile' = [zipFile EXCEPT !.finished = TRUE]
  /\ zresult' = OkCount(file_count)
  /\ pc' = "done"
  /\ UNCHANGED <<fs, touched, call, task, walk, walked, file_count,
                 output_dir, idx, handled, fsAtEntry, uresult>>

-----------------------------------------------------------------------------
(* Inputs of the extractor: hand-made archives and the state of output_dir *)

A == <<"a">>
B == <<"b">>
Work == <<"w">>
Par == <<"p">>
Out == <<"o">>

OutputDir == <<Sep>> \o Work \o <<Sep>> \o Par \o <<Sep>> \o Out
OutCanon == <<Work, Par, Out>>

ModeAll == 6 * 64 + 6 * 8 + 6     \* 0o666

\* the root belongs to the system, the work directory to the process
BaseFs == (<<>> :> DirNode(ModeRWX, "other")) @@ (<<Work>> :> DirNode(ModeRWX, "me"))

OutputStates ==
  { BaseFs,
    BaseFs @@ (<<Work, Par>> :> DirNode(ModeRWX, "me")),
    BaseFs @@ (<<Work, Par>> :> DirNode(ModeRWX, "me"))
           @@ (OutCanon :> DirNode(ModeRWX, "me")),
    BaseFs @@ (<<Work, Par>> :> DirNode(ModeRWX, "me"))
           @@ (OutCanon :> DirNode(ModeRWX, "me"))
           @@ (Append(OutCanon, A) :> FileNode(ModeAll, "other", <<9>>)) }

EntryNames ==
  { A,                                   \* a
    A \o <<Sep>>,                        \* a/
    B,                                   \* b
    A \o <<Sep>> \o B,                   \* a/b
    <<Dot, Dot, Sep>> \o A,              \* ../a
    <<Sep>> \o A,                        \* /a
    A \o <<Sep, Dot, Dot, Sep>> \o B,    \* a/../b
    A \o <<Sep, Dot, Dot, Sep, Dot, Dot, Sep>> \o B,   \* a/../../b
    A \o <<Sep, Dot, Dot, Sep>> }        \* a/../

EntryModes == {NoMode, SomeMode(S_IFDIR + ModeRX)}
EntryData == <<1, 2>>

\* an entry that cannot be opened fails the same way whatever its name and mode
EntryPool ==
  { Entry(n, m, EntryData, DefaultLevel, b) :
      n \in EntryNames, m \in EntryModes, b \in {"ok", "data"} }
  \cup {Entry(A, NoMode, EntryData, DefaultLevel, "index")}

SeqsUpTo(S, n) == UNION {[1..k -> S] : k \in 0..n}

Archives ==
  {NoZip}
  \cup {[exists |-> TRUE, entries |-> es, finished |-> TRUE] : es \in SeqsUpTo(EntryPool, MaxEntries)}
  \cup {[exists |-> TRUE, entries |-> <<>>, finished |-> FALSE]}

NoCall == [source_dir |-> <<>>, options |-> None]
NoTask == [built |-> FALSE, source_dir |-> <<>>, options |-> ZipOptions(NoLevel, None)]

InitUnzip ==
  /\ fs \in OutputStates
  /\ zipFile \in Archives
  /\ output_dir = OutputDir
  /\ pc = "unzip"
  /\ touched = {}
  /\ idx = 0
  /\ handled = <<>>
  /\ fsAtEntry = fs
  /\ uresult = "none"
  /\ call = NoCall
  /\ task = NoTask
  /\ walk = <<>>
  /\ walked = <<>>
  /\ file_count = 0
  /\ zresult = NoResult

NextUnzip == UnzipOpen \/ ExtractEntry \/ ExtractReturn

SpecUnzip == InitUnzip /\ [][NextUnzip]_vars

-----------------------------------------------------------------------------
(* Inputs of the archiver: source trees below source_dir, options *)

Src == <<"s">>
SourceDir == <<Sep>> \o Src
SrcCanon == <<Src>>

\* the relative paths a source tree may hold
TreePaths == {<<A>>, <<B>>, <<A, A>>, <<A, B>>}

HasChild(T, t) == \E u \in T : Len(u) = Len(t) + 1 /\ Front(u) = t

TreeShapes(n) ==
  {T \in SUBSET TreePaths :
     /\ Cardinality(T) <= n
     /\ \A t \in T : Len(t) > 1 => Front(t) \in T}

NodeChoices(contents) ==
  {FileNode(ModeRW, "me", d) : d \in contents}
  \cup {FileNode(ModeNone, "me", d) : d \in contents}
  \cup {DirNode(ModeRWX, "me"), DirNode(ModeRX, "me"), DirNode(ModeNone, "me"), LinkNode}

\* the assignments of nodes to a shape: a path with children is a directory
TreesOf(T, contents) ==
  {n \in [T -> NodeChoices(contents)] : \A t \in T : HasChild(T, t) => n[t].kind = "dir"}

SourceTrees(maxNodes, contents) == UNION {TreesOf(T, contents) : T \in TreeShapes(maxNodes)}

Below(n) == [q \in {SrcCanon \o t : t \in DOMAIN n} |-> n[Tail(q)]]

\* source_dir is a directory holding a tree, or a file, or a dangling link, or missing
SourceStates(base, maxNodes, contents) ==
  {base @@ (SrcCanon :> DirNode(m, "me")) @@ Below(n) :
     m \in {ModeRWX, ModeNone}, n \in SourceTrees(maxNodes, contents)}
  \cup {base @@ (SrcCanon :> FileNode(ModeRW, "me", d)) : d \in contents}
  \cup {base, base @@ (SrcCanon :> LinkNode)}

PatternPool ==
  { <<"*">>,               \* everything
    A,                     \* a
    <<"*">> \o B,          \* *b
    A \o <<Sep, "*">>,     \* a/*
    <<"?">>,               \* ?
    <<"[">> }              \* not a valid glob

Excludes(n) == {None} \cup {Some(ps) : ps \in SeqsUpTo(PatternPool, n)}

OptionChoices(levels, excludes) ==
  {None} \cup {Some(ZipOptions(l, x)) : l \in levels, x \in excludes}

Contents == {<<1, 2>>}

InitZipWith(states, options) ==
  /\ fs \in states
  /\ call \in {[source_dir |-> SourceDir, options |-> o] : o \in options}
  /\ pc = "zip"
  /\ task = NoTask
  /\ zipFile = NoZip
  /\ walk = <<>>
  /\ walked = <<>>
  /\ file_count = 0
  /\ zresult = NoResult
  /\ output_dir = OutputDir
  /\ touched = {}
  /\ idx = 0
  /\ handled = <<>>
  /\ fsAtEntry = fs
  /\ uresult = "none"

\* the archiver on every source tree, with a valid level
Init ==
  InitZipWith(SourceStates(BaseFs, MaxNodes, Contents),
              OptionChoices({NoLevel, SomeLevel(LevelMax)}, Excludes(MaxPatterns)))

Next == Zip \/ ComputeBegin \/ WalkStep \/ ComputeFinish

Spec == Init /\ [][Next]_vars

\* every level around the valid range, on the small source trees
LevelSlack == 2
LevelTreeNodes == 1
Levels == {NoLevel} \cup {SomeLevel(l) : l \in (LevelMin - LevelSlack)..(LevelMax + LevelSlack)}

InitLevel ==
  InitZipWith(SourceStates(BaseFs, LevelTreeNodes, Contents),
              OptionChoices(Levels, {None}))

SpecLevel == InitLevel /\ [][Next]_vars

-----------------------------------------------------------------------------
(* The round trip: the archiver, then the extractor on what it wrote *)

\* the caller runs unzip(output_path, output_dir) after a successful zip
StartUnzip ==
  /\ pc = "done"
  /\ zresult.state = "ok"
  /\ uresult = "none"
  /\ pc' = "unzip"
  /\ UNCHANGED <<fs, touched, call, task, zipFile, walk, walked, file_count,
                 zresult, output_dir, idx, handled, fsAtEntry, uresult>>

\* output_dir exists and is empty
EmptyOutput ==
  BaseFs @@ (<<Work, Par>> :> DirNode(ModeRWX, "me")) @@ (OutCanon :> DirNode(ModeRWX, "me"))

RoundContents == {<<1, 2>>, <<3>>}

InitRound ==
  InitZipWith(SourceStates(EmptyOutput, MaxNodes, RoundContents),
              OptionChoices({NoLevel}, Excludes(MaxPatterns)))

NextRound ==
  \/ Zip \/ ComputeBegin \/ WalkStep \/ ComputeFinish
  \/ StartUnzip \/ UnzipOpen \/ ExtractEntry \/ ExtractReturn

SpecRound == InitRound /\ [][NextRound]_vars

-----------------------------------------------------------------------------
(* Properties of the archiver *)

GivenLevel ==
  IF call.options.some /\ call.options.v.level.some THEN call.options.v.level.v ELSE 1

GivenExcludes ==
  IF call.options.some /\ call.options.v.exclude.some THEN call.options.v.exclude.v ELSE <<>>

RelName(p) == JoinSegs(Tail(p))

\* the relative path matches an exclusion string that is a valid glob
Matched(p) ==
  \E k \in 1..Len(GivenExcludes) :
    /\ PatternNew(GivenExcludes[k]).ok
    /\ PatternMatches(PatternNew(GivenExcludes[k]).tokens, RelName(p))

\* p is below source_dir and every directory on the way to it can be listed
Listed(p) ==
  /\ p \in DOMAIN fs
  /\ Len(p) > 1
  /\ p[1] = Src
  /\ \A k \in 1..(Len(p) - 1) :
       LET d == fs[SubSeq(p, 1, k)] IN d.kind = "dir" /\ CanR(d) /\ CanX(d)

HasEntry(p) ==
  \E k \in 1..Len(zipFile.entries) :
    zipFile.entries[k].name \in {RelName(p), RelName(p) \o <<Sep>>}

FileRecords == {k \in 1..Len(zipFile.entries) : ~IsDirEntry(zipFile.entries[k])}

\* C3: a level outside 0..9 is rejected by zip before any filesystem work (no
\* output file, no task); a level in 0..9, or an omitted one (1), passes and the
\* task runs with that level.
C3_LevelBounds ==
  /\ (pc /= "zip" /\ GivenLevel \notin 0..9)
       => /\ pc = "done"
          /\ zresult.state = "err"
          /\ ~task.built
          /\ zipFile = NoZip
          /\ walked = <<>>
  /\ (pc /= "zip" /\ GivenLevel \in 0..9)
       => /\ task.built
          /\ LevelOr(task.options.level) = GivenLevel
          /\ zresult.err /= "Compression level must be between 0 and 9"
          /\ \A k \in 1..Len(zipFile.entries) : zipFile.entries[k].level = GivenLevel
  /\ (pc = "done" /\ GivenLevel \in 0..9) => zipFile.exists

\* level 10 was rejected and nothing is at output_path
C3_Witness ==
  /\ pc = "done"
  /\ GivenLevel = 10
  /\ zresult.state = "err"
  /\ ~zipFile.exists

\* C5: after a successful archive, a walked entry below source_dir has an archive
\* entry exactly when its relative path matches no valid exclusion glob; the
\* children of an excluded directory are tested on their own, and an invalid glob
\* excludes nothing.
C5_ExclusionIsPerPath ==
  zresult.state = "ok" =>
    /\ \A p \in DOMAIN fs : Listed(p) => (HasEntry(p) <=> ~Matched(p))
    /\ \A p \in DOMAIN fs : Listed(p) => \E k \in 1..Len(walked) : walked[k] = p
    /\ \A k \in 1..Len(zipFile.entries) :
         zipFile.entries[k].name /= <<>> =>
           \E p \in DOMAIN fs :
             Listed(p) /\ zipFile.entries[k].name \in {RelName(p), RelName(p) \o <<Sep>>}

\* a directory was excluded and its child was archived
C5_Witness ==
  /\ zresult.state = "ok"
  /\ \E p \in DOMAIN fs :
       /\ Listed(p)
       /\ Len(p) = 3
       /\ Matched(Front(p))
       /\ ~HasEntry(Front(p))
       /\ HasEntry(p)

\* C6: on success the returned count is the number of file records in the archive,
\* which are the walked regular files that no glob excludes; directory markers and
\* excluded entries do not count.
C6_CountIsFileRecords ==
  zresult.state = "ok" =>
    /\ zresult.count = Cardinality(FileRecords)
    /\ zresult.count =
         Cardinality({k \in 1..Len(walked) :
                        fs[walked[k]].kind = "file" /\ ~Matched(walked[k])})

\* two files counted next to a directory marker
C6_Witness ==
  /\ zresult.state = "ok"
  /\ zresult.count = 2
  /\ \E k \in 1..Len(zipFile.entries) : IsDirEntry(zipFile.entries[k])

\* C7: a source_dir that does not exist or cannot be read makes archive return an
\* error, never a success with a count.
C7_UnreadableRootFails ==
  (/\ pc = "done"
   /\ task.built
   /\ \/ ~PathExists(fs, SourceDir)
      \/ PathIsDir(fs, SourceDir) /\ ~CanR(fs[SrcCanon]))
    => zresult.state = "err"

\* C8: no entry written by archive has an empty name or stands for source_dir.
C8_RootIsNeverAnEntry ==
  \A k \in 1..Len(zipFile.entries) : zipFile.entries[k].name /= <<>>

\* C10: every directory marker in the archive stands for a walked directory.
C10_MarkersOnlyForDirectories ==
  \A k \in 1..Len(zipFile.entries) :
    IsDirEntry(zipFile.entries[k]) =>
      LET p == SrcCanon \o Segs(zipFile.entries[k].name) IN
      p \in DOMAIN fs /\ fs[p].kind = "dir"

\* the source tree, relative to source_dir
SourcePaths == {p \in DOMAIN fs : Len(p) > 1 /\ p[1] = Src}
Extracted(p) == OutCanon \o Tail(p)

\* source_dir is a directory, and the archiver can read every file and
\* directory of it
SourceReadable ==
  /\ SrcCanon \in DOMAIN fs
  /\ fs[SrcCanon].kind = "dir"
  /\ \A p \in SourcePaths \cup {SrcCanon} : fs[p].kind \in {"file", "dir"} /\ CanR(fs[p])

\* C4: archive then extract into an empty directory succeeds and reproduces every
\* non-excluded file (same relative path, same bytes) and every non-excluded
\* directory; stated for the source trees the archiver can read entirely.
C4_RoundTrip ==
  (/\ SourceReadable
   /\ pc = "done"
   /\ zresult.state = "err" \/ uresult /= "none")
    => /\ zresult.state = "ok"
       /\ uresult = "OK"
       /\ \A p \in SourcePaths :
            ~Matched(p) =>
              /\ Extracted(p) \in DOMAIN fs
              /\ fs[Extracted(p)].kind = fs[p].kind
              /\ fs[Extracted(p)].data = fs[p].data

-----------------------------------------------------------------------------
(* Properties of the extractor *)

Entries == zipFile.entries
LastHandled == handled[Len(handled)]
EffectPaths(ch) == {t.p : t \in ch}
EarlierPaths == UNION {EffectPaths(handled[k].changed) : k \in 1..(Len(handled) - 1)}
Unsafe(e) == ~enclosed_name(e.name).some

DistinctNames ==
  \A j, k \in 1..Len(Entries) : j /= k => Entries[j].name /= Entries[k].name

\* C9 as stated: entries are processed in index order; when entry i fails the
\* operation returns the error, no later entry is processed, and everything
\* produced for earlier entries is on disk unchanged.  Stated for the archives
\* whose entry names are all different.
C9_AbortLeavesEarlierOutputUnchanged ==
  DistinctNames =>
    /\ \A k \in 1..Len(handled) : handled[k].i = k - 1
    /\ (handled /= <<>> /\ LastHandled.err /= "OK")
         => /\ pc = "done"
            /\ uresult = LastHandled.err
            /\ idx = Len(handled) - 1
            /\ \A p \in EarlierPaths : p \in DOMAIN fs /\ fs[p] = fsAtEntry[p]

\* C9 amended: entries are processed in index order; when entry i fails the
\* operation returns the error, no later entry is processed, and everything
\* produced for earlier entries stays on disk, unchanged except for a file at the
\* very path entry i resolves to, which entry i truncated before it failed.
C9_AbortLeavesEarlierOutputExceptOwnTarget ==
  /\ \A k \in 1..Len(handled) : handled[k].i = k - 1
  /\ (handled /= <<>> /\ LastHandled.err /= "OK")
       => /\ pc = "done"
          /\ uresult = LastHandled.err
          /\ idx = Len(handled) - 1
          /\ \A p \in EarlierPaths :
               /\ p \in DOMAIN fs
               /\ fs[p].kind = fsAtEntry[p].kind
               /\ fs[p] /= fsAtEntry[p] => Effect(p, "truncate") \in LastHandled.changed

\* the second entry failed after the first one had produced output
C9_Witness ==
  /\ Len(handled) = 2
  /\ handled[1].changed /= {}
  /\ LastHandled.err /= "OK"
  /\ pc = "done"

====
